---- MODULE Spec2Model ----
(***************************************************************************)
(* Chunked range-transfer protocol of ekediala/file_upload.                *)
(*                                                                         *)
(*   Range Server       src/cmd/server/main.go  Handler, getContentType,   *)
(*                                               isCompressibleType         *)
(*   Resumable Fetcher  src/cmd/client/main.go  FileDownloadHandler,       *)
(*                                               downloadChunk              *)
(*                                                                         *)
(* File content is kept as a sequence of runs.  A run                      *)
(*   [kind |-> "data", name |-> f, from |-> a, len |-> n]                  *)
(* stands for the n bytes of the served file f at absolute offsets         *)
(* a .. a+n-1; kinds "gzip", "zero" and "junk" stand for bytes that are    *)
(* not original content.  Adjacent runs that continue each other are kept  *)
(* merged, so two byte strings are equal exactly when their run sequences  *)
(* are equal.  This lets the model keep the program's real sizes.          *)
(***************************************************************************)
EXTENDS Integers, Sequences, FiniteSets, TLC

VARIABLES
    served,      \* server's ./files tree: file name -> [size, sniff]
    disk,        \* fetcher's working directory: file name -> bytes, or NoFile
    exch,        \* the last exchange with the server since the transfer began
                 \* (or of another client, before any transfer): [req, resp]
    pc,          \* position of the fetch attempt in FileDownloadHandler
    fileName,    \* r.PathValue("fileName") of the attempt
    fileSize,    \* stat.Size() measured at the start of the attempt
    totalSize,   \* res.ContentLength of the size probe
    start,       \* loop variable of the chunk loop (the cursor)
    wpos,        \* offset of the local file handle
    buf,         \* bytes held in the bufio.Writer, not yet in the file
    sent,        \* ranges requested in this attempt, in order: <<start, end>>
    cops,        \* what this attempt did, in order: file and network
                 \* operations and the writing of its answer ("reply")
    reply,       \* what the fetcher answered: [status, text], or NoReply
    outcome,     \* how the attempt ended, "" while it runs
    faults,      \* number of transport failures and protocol breaches so far
    found,       \* bytes the local file held when the attempt opened it
    other,       \* another client of the server that reads a file in pieces
    conns,       \* server: the requests being handled, each at its own step
    handles,     \* server: the file handles os.Open has made, in order
    twin         \* a second fetch attempt for the same target, overlapping

vars == <<served, disk, exch, pc, fileName, fileSize, totalSize, start, wpos,
          buf, sent, cops, reply, outcome, faults, found, other, conns,
          handles, twin>>

-----------------------------------------------------------------------------
(* Program constants *)

chunkSize == 512 * 1024
bufferSize == 64 * 1024
MinCompressionSize == 8 * 1024
SniffLen == 512

StatusOK == 200
StatusPartialContent == 206
StatusBadRequest == 400
StatusRequestedRangeNotSatisfiable == 416
StatusInternalServerError == 500

(* Bounds of the model *)

MaxChunks == 3      \* remote and local sizes reach MaxChunks * chunkSize + Slack
Slack == 1          \* sizes lie within Slack bytes of a chunk boundary
MaxFaults == 1      \* transport failures injected per behaviour

ExampleSize == 1500 * 1000

Min(a, b) == IF a < b THEN a ELSE b


-----------------------------------------------------------------------------
(* Byte strings as merged runs *)

NoName == <<>>

Data(name, from, len) ==
    IF len <= 0 THEN <<>>
    ELSE <<[kind |-> "data", name |-> name, from |-> from, len |-> len]>>

Opaque(kind, len) ==
    IF len <= 0 THEN <<>>
    ELSE <<[kind |-> kind, name |-> NoName, from |-> 0, len |-> len]>>

RECURSIVE Size(_)
Size(b) == IF b = <<>> THEN 0 ELSE Head(b).len + Size(Tail(b))

\* y holds the bytes that follow x in the same source
Continues(x, y) ==
    /\ x.kind = y.kind
    /\ x.name = y.name
    /\ (x.kind \in {"data", "gzip"}) => (x.from + x.len = y.from)

Cat(a, b) ==
    IF a = <<>> THEN b
    ELSE IF b = <<>> THEN a
    ELSE LET x == a[Len(a)]
             y == Head(b)
         IN  IF Continues(x, y)
             THEN SubSeq(a, 1, Len(a) - 1)
                    \o <<[x EXCEPT !.len = x.len + y.len]>> \o Tail(b)
             ELSE a \o b

\* the part of run x that starts k bytes in and is n bytes long
Part(x, k, n) ==
    [x EXCEPT !.from = IF x.kind \in {"data", "gzip"} THEN x.from + k ELSE 0,
              !.len = n]

RECURSIVE Take(_, _)
Take(b, n) ==
    IF n <= 0 \/ b = <<>> THEN <<>>
    ELSE IF Head(b).len <= n THEN <<Head(b)>> \o Take(Tail(b), n - Head(b).len)
    ELSE <<Part(Head(b), 0, n)>>

RECURSIVE Drop(_, _)
Drop(b, n) ==
    IF b = <<>> THEN <<>>
    ELSE IF n <= 0 THEN b
    ELSE IF Head(b).len <= n THEN Drop(Tail(b), n - Head(b).len)
    ELSE <<Part(Head(b), n, Head(b).len - n)>> \o Tail(b)

\* a write that lands at the front of the file
WriteAt_Front(f, pos, data) == Cat(data, Drop(f, Size(data)))

\* a write of data at offset pos of a file holding f (a hole reads as zeros)
WriteAt(f, pos, data) ==
    LET hole == Opaque("zero", pos - Size(f))
    IN  Cat(Cat(Cat(Take(f, pos), hole), data), Drop(f, pos + Size(data)))

\* a read that is not limited to n bytes
ReadAt_Unlimited(name, size, pos, n) == Data(name, pos, size - pos)

\* what a read of up to n bytes at offset pos of served file name returns
ReadAt(name, size, pos, n) == Data(name, pos, Min(n, size - pos))

\* compress/gzip: the stream carries the same range in another coding;
\* a byte string that is not one whole gzip stream does not decode
Gzip(b) == [i \in 1..Len(b) |-> [b[i] EXCEPT !.kind = "gzip"]]

IsGzip(b) == b # <<>> /\ \A i \in 1..Len(b) : b[i].kind = "gzip"

\* a reader that hands on the compressed stream as it came
Gunzip_Raw(b) == b

Gunzip(b) == [i \in 1..Len(b) |-> [b[i] EXCEPT !.kind = "data"]]

-----------------------------------------------------------------------------
(* Strings.  File names are sequences of characters; header values and     *)
(* content types are atoms whose substrings are tabulated.                 *)

\* strings.HasPrefix in place of strings.Contains
SeqContains_Prefix(s, t) == Len(t) <= Len(s) /\ SubSeq(s, 1, Len(t)) = t

\* strings.Contains on character sequences
SeqContains(s, t) ==
    \E i \in 0..(Len(s) - Len(t)) : SubSeq(s, i + 1, i + Len(t)) = t

DotDot == <<".", ".">>

\* path.Ext: the suffix starting at the final dot, or empty
PathExt(name) ==
    LET dots == {i \in 1..Len(name) : name[i] = "."}
    IN  IF dots = {} THEN <<>>
        ELSE SubSeq(name, CHOOSE i \in dots : \A j \in dots : j <= i, Len(name))

\* mime.TypeByExtension for the extensions of the model, split at ";"
TypeByExtension(ext) ==
    CASE ext = <<".", "t", "x", "t">> -> <<"text/plain", " charset=utf-8">>
      [] ext = <<".", "j", "s">>      -> <<"text/javascript", " charset=utf-8">>
      [] ext = <<".", "p", "n", "g">> -> <<"image/png">>
      [] OTHER -> <<>>

\* http.DetectContentType by what the first bytes look like
DetectContentType(sniff) ==
    IF sniff = "text" THEN "text/plain; charset=utf-8"
    ELSE "application/octet-stream"

compressibleTypes ==
    <<"text/", "application/json", "application/xml",
      "application/javascript", "application/x-javascript">>

\* the patterns of compressibleTypes that occur in a content type
Occurring(contentType) ==
    CASE contentType \in {"text/plain", "text/plain; charset=utf-8",
                          "text/markdown", "text/javascript"} -> {"text/"}
      [] contentType = "application/javascript" -> {"application/javascript"}
      [] OTHER -> {}

\* strings.Contains(r.Header.Get("Accept-Encoding"), "gzip")
AcceptEncodings == {"", "gzip", "identity", "gzip, deflate"}

ContainsGzip(acceptEncoding) == acceptEncoding \in {"gzip", "gzip, deflate"}

\* A Range header: "" when absent, else <unit>=<nums joined by "-">
NoRange == [unit |-> "", nums |-> <<>>]

\* fmt.Sprintf("bytes=%d-%d", start, end)
FormatRange(s, e) == [unit |-> "bytes", nums |-> <<s, e>>]

\* a scan that does not match the literal text of the format
Sscanf_AnyUnit(hdr) ==
    LET n == Min(Len(hdr.nums), 2)
    IN  [n |-> n, err |-> n < 2,
         start |-> IF n >= 1 THEN hdr.nums[1] ELSE 0,
         end |-> IF n >= 2 THEN hdr.nums[2] ELSE 0]

\* fmt.Sscanf(rangeHeader, "bytes=%d-%d", &start, &end): the number of
\* items scanned, and an error unless both were
Sscanf(hdr) ==
    LET n == IF hdr.unit = "bytes" THEN Min(Len(hdr.nums), 2) ELSE 0
    IN  [n |-> n, err |-> n < 2,
         start |-> IF n >= 1 THEN hdr.nums[1] ELSE 0,
         end |-> IF n >= 2 THEN hdr.nums[2] ELSE 0]

-----------------------------------------------------------------------------
(* Range Server: src/cmd/server/main.go *)

NoLength == -1          \* no Content-Length declared by the handler
NoContentRange == <<>>

isCompressibleType(contentType) ==
    \E i \in 1..Len(compressibleTypes) :
        compressibleTypes[i] \in Occurring(contentType)

\* a seek that leaves the handle where it is
SeekStart_Stay(pos, offset) == pos

\* file.Seek(offset, io.SeekStart) on a handle at offset pos: the new offset
SeekStart(pos, offset) == offset

\* getContentType(fileName, fileReader) on a handle [name, size, sniff, pos]:
\* the content type, the handle's offset afterwards, and the bytes it read
getContentType(file) ==
    LET ext == PathExt(file.name)
        mimeType == IF ext # <<>> THEN TypeByExtension(ext) ELSE <<>>
        currentPos == file.pos
        n == Min(SniffLen, file.size - currentPos)
        readErr == n <= 0
        afterRead == IF readErr THEN currentPos ELSE currentPos + n
        restored == SeekStart(afterRead, currentPos)
    IN  IF mimeType # <<>>
        THEN [contentType |-> Head(mimeType), pos |-> file.pos, ops |-> <<>>]
        ELSE IF ext = <<".", "m", "d">>
        THEN [contentType |-> "text/markdown", pos |-> file.pos, ops |-> <<>>]
        ELSE IF ext \in {<<".", "j", "s", "x">>, <<".", "t", "s", "x">>}
        THEN [contentType |-> "application/javascript", pos |-> file.pos,
              ops |-> <<>>]
        ELSE IF ext \in {<<".", "y", "a", "m", "l">>, <<".", "y", "m", "l">>}
        THEN [contentType |-> "application/yaml", pos |-> file.pos, ops |-> <<>>]
        ELSE [contentType |-> IF readErr THEN "application/octet-stream"
                              ELSE DetectContentType(file.sniff),
              pos |-> restored,
              ops |-> <<"seek", "read", "seek">>]

\* http.Error(w, text, status)
HttpError(status, text, ops) ==
    [status |-> status, text |-> text, contentLength |-> NoLength,
     contentRange |-> NoContentRange, contentEncoding |-> "",
     contentType |-> "text/plain; charset=utf-8", body |-> <<>>, ops |-> ops]

\* the threshold taken as exclusive
ShouldCompress_Above(acceptsGzip, contentType, chunk) ==
    acceptsGzip /\ isCompressibleType(contentType) /\ chunk > MinCompressionSize

\* chunkSize >= 8*1024 and the two other conditions of shouldCompress
ShouldCompress(acceptsGzip, contentType, chunk) ==
    acceptsGzip /\ isCompressibleType(contentType) /\ chunk >= MinCompressionSize

\* the bound on end taken as inclusive
RangeInvalid_EndAtSize(s, e, size) == s < 0 \/ e < s \/ e > size

\* the validation of the parsed range against stat.Size()
RangeInvalid(s, e, size) == s < 0 \/ e < s \/ e >= size

\* a compressed answer that declares the length of the uncompressed chunk
PartialContent_Length(file, s, e, contentType, shouldCompress, ops) ==
    LET chunk == e - s + 1
        chunkReader == ReadAt(file.name, file.size, s, chunk)
    IN  [status |-> StatusPartialContent, text |-> "",
         contentLength |-> chunk,
         contentRange |-> <<s, e, file.size>>,
         contentEncoding |-> IF shouldCompress THEN "gzip" ELSE "",
         contentType |-> contentType,
         body |-> IF shouldCompress THEN Gzip(chunkReader) ELSE chunkReader,
         ops |-> ops \o <<"seek", "read">>]

\* the framing and body of a 206 answer
PartialContent(file, s, e, contentType, shouldCompress, ops) ==
    LET chunk == e - s + 1
        pos == SeekStart(file.pos, s)
        chunkReader == ReadAt(file.name, file.size, pos, chunk)
    IN  IF shouldCompress
        THEN [status |-> StatusPartialContent, text |-> "",
              contentLength |-> NoLength,
              contentRange |-> <<s, e, file.size>>,
              contentEncoding |-> "gzip", contentType |-> contentType,
              body |-> Gzip(chunkReader), ops |-> ops \o <<"seek", "read">>]
        ELSE [status |-> StatusPartialContent, text |-> "",
              contentLength |-> chunk,
              contentRange |-> <<s, e, file.size>>,
              contentEncoding |-> "", contentType |-> contentType,
              body |-> chunkReader, ops |-> ops \o <<"seek", "read">>]

\* a probe recognised only when it carries no Range header
IsSizeProbe_NoRange(r) == r.method = "HEAD" /\ r.range = NoRange

\* line 92: the request is a size probe
IsSizeProbe(r) == r.method = "HEAD"

\* lines 93-94: the answer to a size probe
SizeProbe(stat, ops) ==
    [status |-> StatusOK, text |-> "", contentLength |-> stat.size,
     contentRange |-> NoContentRange, contentEncoding |-> "",
     contentType |-> "", body |-> <<>>, ops |-> ops]

\* Handler(w, r) against the served tree fs: the response it writes
Handler(fs, r) ==
    IF SeqContains(r.fileName, DotDot)
    THEN HttpError(StatusBadRequest, "Bad Request", <<>>)
    ELSE IF r.fileName \notin DOMAIN fs
    THEN HttpError(StatusInternalServerError, "open: no such file or directory",
                   <<"open">>)
    ELSE
    LET stat == fs[r.fileName]
        opened == [name |-> r.fileName, size |-> stat.size,
                   sniff |-> stat.sniff, pos |-> 0]
        ops1 == <<"open", "stat">>
    IN  IF IsSizeProbe(r)
        THEN SizeProbe(stat, ops1)
        ELSE IF r.range = NoRange
        THEN HttpError(StatusBadRequest, "Range header required", ops1)
        ELSE
        LET sc == Sscanf(r.range)
        IN  IF sc.err \/ sc.n # 2
            THEN HttpError(StatusBadRequest, "Invalid range format", ops1)
            ELSE IF RangeInvalid(sc.start, sc.end, stat.size)
            THEN HttpError(StatusRequestedRangeNotSatisfiable, "Invalid range",
                           ops1)
            ELSE
            LET ct == getContentType(opened)
                file == [opened EXCEPT !.pos = ct.pos]
                acceptsGzip == ContainsGzip(r.acceptEncoding)
            IN  PartialContent(file, sc.start, sc.end, ct.contentType,
                    ShouldCompress(acceptsGzip, ct.contentType,
                                   sc.end - sc.start + 1),
                    ops1 \o ct.ops)

-----------------------------------------------------------------------------
(* The worlds of the model *)

TxtName == <<"a", ".", "t", "x", "t">>
BlobName == <<"b">>
PngName == <<"c", ".", "p", "n", "g">>
MdName == <<"d", ".", "m", "d">>
DotsName == <<"e", ".", ".", "t", "x", "t">>
MissingName == <<"m", ".", "t", "x", "t">>

ServedNames == {TxtName, BlobName, PngName, MdName, DotsName}
Names == ServedNames \cup {MissingName}

Sizes ==
    {n \in {k * chunkSize + d : k \in 0..MaxChunks, d \in (0 - Slack)..Slack} :
        n >= 0}
    \cup {ExampleSize}

NoFile == [exists |-> FALSE, bytes |-> <<>>]
OnDisk(b) == [exists |-> TRUE, bytes |-> b]

\* a local file of l bytes left by earlier work: the first bytes of the
\* served file name as far as that has any, then bytes of something else
LocalFile(fs, name, l) ==
    LET t == IF name \in DOMAIN fs THEN fs[name].size ELSE 0
    IN  OnDisk(Cat(Data(name, 0, Min(l, t)), Opaque("junk", l - t)))

NoExch == [req |-> [method |-> "", fileName |-> <<>>, range |-> NoRange,
                    acceptEncoding |-> ""],
           resp |-> HttpError(0, "", <<>>)]
NoReply == [status |-> 0, text |-> ""]

\* the connections on which the server handles requests side by side
Conns == {"c1", "c2"}

\* a connection on which no request has arrived: the step its request is
\* at, the request, its file handle, the offset the sniff saved and the
\* bytes it read, the content type, the response so far, what was written
\* to the response after a failure in mid-stream, the handler's log, and
\* the checks made, in order
NoConn ==
    [at |-> "free", req |-> NoExch.req, h |-> 0, saved |-> 0, sniffed |-> 0,
     contentType |-> "", resp |-> NoExch.resp, late |-> <<>>, log |-> <<>>,
     checks |-> <<>>]

\* no second attempt is running: its position, the size it measured, the
\* size the probe told it, its cursor, the offset of its handle, the bytes
\* of the chunk still to be written, and how it ended
NoTwin ==
    [pc |-> "idle", fileSize |-> 0, totalSize |-> 0, start |-> 0, wpos |-> 0,
     pending |-> <<>>, outcome |-> ""]

\* a client that has read nothing: the file it reads, the content of the
\* whole-file range, the next offset to ask for, the content of the pieces
\* so far, their number and the codings they came in
NoOther == [name |-> <<>>, whole |-> <<>>, cursor |-> 0, got |-> <<>>,
            pieces |-> 0, codings |-> {}]

\* last bytes of the pieces such a client may ask for in a file of t bytes
PieceEnds(t) ==
    {e \in {0, SniffLen - 1, SniffLen, MinCompressionSize - 1,
            MinCompressionSize, chunkSize - 1, t - MinCompressionSize - 1,
            t - 2, t - 1} : 0 <= e /\ e < t}

\* the requests a client other than the fetcher may send
RangeCases(t) ==
    {<<s, e>> : s \in {-1, 0, t - 1, t}, e \in {-1, 0, t - 1, t}}
    \cup {<<0, MinCompressionSize - 1>>, <<1, MinCompressionSize - 1>>,
          <<0, MinCompressionSize - 2>>, <<t - MinCompressionSize, t - 1>>,
          <<SniffLen, SniffLen + MinCompressionSize>>}

RangeHeaders(t) ==
    {NoRange, [unit |-> "bytes", nums |-> <<>>], [unit |-> "bytes", nums |-> <<0>>],
     [unit |-> "items", nums |-> <<0, 0>>]}
    \cup {FormatRange(c[1], c[2]) : c \in RangeCases(t)}

Requests(t) ==
    [method : {"HEAD", "GET"}, fileName : Names, range : RangeHeaders(t),
     acceptEncoding : AcceptEncodings]

InitServed ==
    \E t \in Sizes, sn \in {"text", "binary"} :
        served = [n \in ServedNames |-> [size |-> t, sniff |-> sn]]

InitFetcher ==
    /\ exch = NoExch
    /\ pc = "idle"
    /\ fileName = <<>>
    /\ fileSize = 0
    /\ totalSize = 0
    /\ start = 0
    /\ wpos = 0
    /\ buf = <<>>
    /\ sent = <<>>
    /\ cops = <<>>
    /\ reply = NoReply
    /\ outcome = ""
    /\ faults = 0
    /\ found = <<>>
    /\ other = NoOther
    /\ conns = [c \in Conns |-> NoConn]
    /\ handles = <<>>
    /\ twin = NoTwin

\* the fetcher's directory holds nothing yet
InitEmpty ==
    /\ InitServed
    /\ disk = [n \in Names |-> NoFile]
    /\ InitFetcher

\* the fetcher's directory holds what earlier work left: nothing, or l bytes
Init ==
    /\ InitServed
    /\ \/ disk = [n \in Names |-> NoFile]
       \/ \E l \in Sizes : disk = [n \in Names |-> LocalFile(served, n, l)]
    /\ InitFetcher

-----------------------------------------------------------------------------
(* Resumable Fetcher: src/cmd/client/main.go *)

\* a writer whose file was opened for appending
WriterReadFrom_Append(f, pos, buffered, data) ==
    [bytes |-> Cat(f, Cat(buffered, data)),
     pos |-> Size(f) + Size(buffered) + Size(data), buf |-> <<>>]

\* bufio.Writer.ReadFrom over an *os.File: with nothing buffered the bytes go
\* straight to the file; otherwise they fill the buffer, which is flushed
\* when full and the rest then goes straight to the file
WriterReadFrom(f, pos, buffered, data) ==
    IF buffered = <<>> \/ Size(buffered) + Size(data) >= bufferSize
    THEN [bytes |-> WriteAt(f, pos, Cat(buffered, data)),
          pos |-> pos + Size(buffered) + Size(data), buf |-> <<>>]
    ELSE [bytes |-> f, pos |-> pos, buf |-> Cat(buffered, data)]

\* writer.Flush()
WriterFlush(f, pos, buffered) ==
    [bytes |-> WriteAt(f, pos, buffered), pos |-> pos + Size(buffered),
     buf |-> <<>>]

\* the comparison taken as strict
AlreadyDownloaded_Strict(size, total) == size > total

\* line 121: nothing is left to fetch
AlreadyDownloaded(size, total) == size >= total

\* a window that runs one byte into the next one
ChunkEnd_Long(s, total) == s + chunkSize

\* the window of one loop iteration
ChunkEnd(s, total) ==
    LET end == s + chunkSize - 1
    IN  IF end > total THEN total - 1 ELSE end

\* a cursor that stays where it is
Advance_Stay(s) == s

\* line 135: start += chunkSize
Advance(s) == s + chunkSize

\* a probe whose status is not looked at
ProbeFailed_Never(res) == FALSE

\* line 108: the size probe was not answered 200
ProbeFailed(res) == res.status # StatusOK

\* what a HEAD answer looks like to the client: net/http sends no body
HeadView(resp) == [resp EXCEPT !.text = "", !.body = <<>>]

\* the request downloadChunk sends
ChunkRequest(name, s, e) ==
    [method |-> "GET", fileName |-> name, range |-> FormatRange(s, e),
     acceptEncoding |-> "gzip"]

\* a chunk read that does not look at the status
ReadChunk_Ignore(resp) ==
    [status |-> resp.status, err |-> FALSE, text |-> "",
     data |-> IF resp.contentEncoding = "gzip" THEN Gunzip(resp.body)
              ELSE resp.body]

\* downloadChunk after client.Do: the status and error it returns and the
\* bytes io.Copy hands to the writer
ReadChunk(resp) ==
    LET gz == resp.contentEncoding = "gzip"
        reader == IF gz THEN Gunzip(resp.body) ELSE resp.body
    IN  IF gz /\ ~IsGzip(resp.body)
        THEN [status |-> StatusInternalServerError, err |-> TRUE,
              text |-> "gzip: invalid header", data |-> <<>>]
        ELSE IF resp.status >= StatusBadRequest
        THEN [status |-> resp.status, err |-> TRUE, text |-> resp.text,
              data |-> <<>>]
        ELSE [status |-> resp.status, err |-> FALSE, text |-> "",
              data |-> reader]

\* Accept-Encoding of a fetcher that declares no gzip capability
NoGzip == "identity"

\* lines 132-149 run to their end without a transport failure by a fetcher
\* that sends accept as its Accept-Encoding, from cursor s with writer state
\* w = [bytes, pos, buf]: the file after the deferred flush, the ranges
\* requested after those in ranges, and the answer
RECURSIVE ChunkLoop(_, _, _, _, _, _, _)
ChunkLoop(fs, name, accept, w, s, total, ranges) ==
    IF s >= total
    THEN [bytes |-> WriterFlush(w.bytes, w.pos, w.buf).bytes, sent |-> ranges,
          reply |-> [status |-> StatusOK, text |-> "Download complete"]]
    ELSE LET end == ChunkEnd(s, total)
             req == [ChunkRequest(name, s, end)
                       EXCEPT !.acceptEncoding = accept]
             dl == ReadChunk(Handler(fs, req))
         IN  IF dl.err
             THEN [bytes |-> WriterFlush(w.bytes, w.pos, w.buf).bytes,
                   sent |-> Append(ranges, <<s, end>>),
                   reply |-> [status |-> dl.status, text |-> dl.text]]
             ELSE ChunkLoop(fs, name, accept,
                            WriterReadFrom(w.bytes, w.pos, w.buf, dl.data),
                            s + chunkSize, total, Append(ranges, <<s, end>>))

\* an open that truncates the file
OpenFile_Trunc(f) == OnDisk(<<>>)

\* os.OpenFile(fileName, os.O_CREATE|os.O_RDWR, 0666): the file is created
\* empty when it does not exist and is otherwise left as it is
OpenFile(f) == OnDisk(f.bytes)

\* a return that closes the file without flushing the writer
Return_NoFlush(status, text, how, ops) ==
    /\ UNCHANGED <<disk, wpos, buf>>
    /\ reply' = [status |-> status, text |-> text]
    /\ outcome' = how
    /\ cops' = cops \o ops \o <<"reply", "close">>
    /\ pc' = "done"

\* an attempt that returns after the writer was made: its answer is
\* written, and then the deferred writer.Flush() and file.Close() run
Return(status, text, how, ops) ==
    LET fl == WriterFlush(disk[fileName].bytes, wpos, buf)
    IN  /\ disk' = [disk EXCEPT ![fileName] = OnDisk(fl.bytes)]
        /\ wpos' = fl.pos
        /\ buf' = fl.buf
        /\ reply' = [status |-> status, text |-> text]
        /\ outcome' = how
        /\ cops' = cops \o ops \o <<"reply", "flush", "close">>
        /\ pc' = "done"

\* lines 68-90: validate the name, open or create the file, stat it.
\* The fetcher is invoked for a target, and invoked again for the same one.
Start(name) ==
    /\ pc = "idle" \/ (pc = "done" /\ name = fileName)
    /\ fileName' = name
    /\ sent' = <<>>
    /\ start' = 0
    /\ wpos' = 0
    /\ buf' = <<>>
    /\ totalSize' = 0
    /\ IF SeqContains(name, DotDot)
       THEN /\ reply' = [status |-> StatusBadRequest, text |-> "Bad Request"]
            /\ outcome' = "rejected"
            /\ pc' = "done"
            /\ cops' = <<"reply">>
            /\ fileSize' = 0
            /\ found' = <<>>
            /\ disk' = disk
            /\ exch' = exch
       ELSE /\ disk' = [disk EXCEPT ![name] = OpenFile(disk[name])]
            /\ fileSize' = Size(disk[name].bytes)
            /\ found' = disk[name].bytes
            /\ cops' = <<"open", "stat">>
            /\ reply' = NoReply
            /\ outcome' = ""
            /\ exch' = NoExch
            /\ pc' = "probe"
    /\ UNCHANGED <<served, faults, other, conns, handles, twin>>

\* lines 95-96: the request of the size probe
ProbeRequest ==
    [method |-> "HEAD", fileName |-> fileName, range |-> NoRange,
     acceptEncoding |-> ""]

\* lines 102-133: what the fetcher does with the answer res to its size
\* probe: the status test, the already-complete test, the seek
Probed(res) ==
    /\ pc = "probe"
    /\ LET req == ProbeRequest
       IN  /\ exch' = [req |-> req, resp |-> res]
           /\ IF ProbeFailed(res)
              THEN /\ reply' = [status |-> StatusInternalServerError,
                                text |-> res.text]
                   /\ outcome' = "probe failed"
                   /\ cops' = cops \o <<"head", "reply", "close">>
                   /\ pc' = "done"
                   /\ UNCHANGED <<totalSize, start, wpos>>
              ELSE IF AlreadyDownloaded(fileSize, res.contentLength)
              THEN /\ totalSize' = res.contentLength
                   /\ reply' = [status |-> StatusOK,
                                text |-> "File already downloaded"]
                   /\ outcome' = "already complete"
                   /\ cops' = cops \o <<"head", "reply", "close">>
                   /\ pc' = "done"
                   /\ UNCHANGED <<start, wpos>>
              ELSE /\ totalSize' = res.contentLength
                   /\ wpos' = SeekStart(wpos, fileSize)
                   /\ start' = fileSize
                   /\ cops' = cops \o <<"head", "seek">>
                   /\ pc' = "loop"
                   /\ UNCHANGED <<reply, outcome>>
    /\ UNCHANGED <<served, disk, fileName, fileSize, buf, sent, found, other,
                   conns, handles, twin>>

\* lines 91-133: the size probe, answered by the Range Server
Probe ==
    /\ Probed(HeadView(Handler(served, ProbeRequest)))
    /\ UNCHANGED faults

\* the size probe fails in transport: client.Do returns an error
ProbeFault ==
    /\ pc = "probe"
    /\ faults < MaxFaults
    /\ faults' = faults + 1
    /\ reply' = [status |-> StatusInternalServerError, text |-> "transport error"]
    /\ outcome' = "probe failed"
    /\ cops' = cops \o <<"head", "reply", "close">>
    /\ pc' = "done"
    /\ UNCHANGED <<served, disk, exch, fileName, fileSize, totalSize, start,
                   wpos, buf, sent, found, other,
                   conns, handles, twin>>

\* line 141: the request of the loop iteration at the cursor
CursorRequest == ChunkRequest(fileName, start, ChunkEnd(start, totalSize))

\* lines 135-146 and downloadChunk after client.Do: what one iteration of
\* the chunk loop does with the answer res to its request
Chunked(res) ==
    /\ pc = "loop"
    /\ start < totalSize
    /\ LET end == ChunkEnd(start, totalSize)
           req == CursorRequest
           dl == ReadChunk(res)
           wr == WriterReadFrom(disk[fileName].bytes, wpos, buf, dl.data)
       IN  /\ exch' = [req |-> req, resp |-> res]
           /\ sent' = Append(sent, <<start, end>>)
           /\ IF dl.err
              THEN /\ Return(dl.status, dl.text, "aborted", <<"get">>)
                   /\ start' = start
              ELSE /\ disk' = [disk EXCEPT ![fileName] = OnDisk(wr.bytes)]
                   /\ wpos' = wr.pos
                   /\ buf' = wr.buf
                   /\ cops' = cops \o <<"get", "write">>
                   /\ start' = Advance(start)
                   /\ UNCHANGED <<reply, outcome, pc>>
    /\ UNCHANGED <<served, fileName, fileSize, totalSize, found, other,
                   conns, handles, twin>>

\* one iteration of the chunk loop, answered by the Range Server
Chunk ==
    /\ Chunked(Handler(served, CursorRequest))
    /\ UNCHANGED faults

\* where a transfer of n bytes may break off
CutPoints(n) == {k \in {0, 1, bufferSize, n - 1} : 0 <= k /\ k < n}

\* one iteration whose transfer breaks: the connection fails after k bytes
\* of the chunk have been read
ChunkFault ==
    /\ pc = "loop"
    /\ start < totalSize
    /\ faults < MaxFaults
    /\ faults' = faults + 1
    /\ LET end == ChunkEnd(start, totalSize)
           req == ChunkRequest(fileName, start, end)
           res == Handler(served, req)
           dl == ReadChunk(res)
       IN  /\ ~dl.err
           /\ sent' = Append(sent, <<start, end>>)
           /\ \E k \in CutPoints(Size(dl.data)) :
                LET wr == WriterReadFrom(disk[fileName].bytes, wpos, buf,
                                         Take(dl.data, k))
                    fl == WriterFlush(wr.bytes, wr.pos, wr.buf)
                IN  /\ exch' = [req |-> req, resp |-> res]
                    /\ disk' = [disk EXCEPT ![fileName] = OnDisk(fl.bytes)]
                    /\ wpos' = fl.pos
                    /\ buf' = fl.buf
           /\ reply' = [status |-> StatusInternalServerError,
                        text |-> "unexpected EOF"]
           /\ outcome' = "aborted"
           /\ cops' = cops \o <<"get", "write", "reply", "flush", "close">>
           /\ pc' = "done"
    /\ UNCHANGED <<served, fileName, fileSize, totalSize, start, found, other,
                   conns, handles, twin>>

\* lines 148-150: the loop has ended
Finish ==
    /\ pc = "loop"
    /\ start >= totalSize
    /\ Return(StatusOK, "Download complete", "complete", <<>>)
    /\ UNCHANGED <<served, exch, fileName, fileSize, totalSize, start, sent,
                   faults, found, other,
                   conns, handles, twin>>

\* the 206 answer res as a server that miscounts sends it: with d bytes of
\* content more (d > 0) or fewer (d < 0), its declared length, if any,
\* matching what it sends, so that the body ends without a transport error
Miscounted(res, d) ==
    LET gz == res.contentEncoding = "gzip"
        content == IF gz THEN Gunzip(res.body) ELSE res.body
        wrong == IF d < 0 THEN Take(content, Size(content) + d)
                 ELSE Cat(content, Opaque("junk", d))
    IN  [res EXCEPT !.body = IF gz THEN Gzip(wrong) ELSE wrong,
                    !.contentLength = IF gz THEN NoLength ELSE Size(wrong)]

\* one iteration of the chunk loop answered 206 by a server that sends one
\* byte more or fewer than the range asked for
ChunkMiscount(d) ==
    /\ faults < MaxFaults
    /\ faults' = faults + 1
    /\ LET res == Handler(served, CursorRequest)
       IN  /\ res.status = StatusPartialContent
           /\ Chunked(Miscounted(res, d))

\* statuses with which a server other than the Range Server refuses a probe
RefusalStatuses == {StatusBadRequest, 404}

\* the size probe is answered with a non-success status that the Range
\* Server does not give to a probe of the fetcher
ProbeRefused(status) ==
    /\ faults < MaxFaults
    /\ faults' = faults + 1
    /\ Probed(HeadView(HttpError(status, "refused", <<>>)))

\* a request of another client, handled by the server
DirectRequest(req) ==
    /\ pc = "idle"
    /\ exch = NoExch
    /\ exch' = [req |-> req, resp |-> Handler(served, req)]
    /\ UNCHANGED <<served, disk, pc, fileName, fileSize, totalSize, start, wpos,
                   buf, sent, cops, reply, outcome, faults, found, other,
                   conns, handles, twin>>

\* size of the file the reading client is reading
OtherSize == IF other = NoOther THEN 0 ELSE served[other.name].size

\* a client asks for the one range [0, T-1] of a file and reads the answer
ReadWhole(name, accept) ==
    /\ other = NoOther
    /\ served[name].size > 0
    /\ LET req == [method |-> "GET", fileName |-> name,
                   range |-> FormatRange(0, served[name].size - 1),
                   acceptEncoding |-> accept]
           dl == ReadChunk(Handler(served, req))
       IN  /\ ~dl.err
           /\ other' = [NoOther EXCEPT !.name = name, !.whole = dl.data]
    /\ UNCHANGED <<served, disk, exch, pc, fileName, fileSize, totalSize, start,
                   wpos, buf, sent, cops, reply, outcome, faults, found,
                   conns, handles, twin>>

\* the client asks for the next smaller range [cursor, e] of the same file
\* and appends what it reads to what it has
ReadPiece(e, accept) ==
    /\ other # NoOther
    /\ other.cursor <= e
    /\ ~(other.cursor = 0 /\ e = OtherSize - 1)
    /\ LET req == [method |-> "GET", fileName |-> other.name,
                   range |-> FormatRange(other.cursor, e),
                   acceptEncoding |-> accept]
           res == Handler(served, req)
           dl == ReadChunk(res)
       IN  /\ ~dl.err
           /\ other' = [other EXCEPT !.cursor = e + 1,
                                     !.got = Cat(@, dl.data),
                                     !.pieces = @ + 1,
                                     !.codings = @ \cup {res.contentEncoding}]
    /\ UNCHANGED <<served, disk, exch, pc, fileName, fileSize, totalSize, start,
                   wpos, buf, sent, cops, reply, outcome, faults, found,
                   conns, handles, twin>>

-----------------------------------------------------------------------------
(* Range Server, step by step: Handler of src/cmd/server/main.go as the    *)
(* steps of one request, for requests handled side by side                 *)

\* an open that hands out a handle some request already holds on the file
OpenHandle_Shared(hs, name) ==
    LET same == {i \in 1..Len(hs) : hs[i].name = name}
    IN  IF same = {}
        THEN [hs |-> Append(hs, [name |-> name, pos |-> 0]), h |-> Len(hs) + 1]
        ELSE [hs |-> hs, h |-> CHOOSE i \in same : \A j \in same : i <= j]

\* os.Open: a new handle on the file, at offset 0
OpenHandle(hs, name) ==
    [hs |-> Append(hs, [name |-> name, pos |-> 0]), h |-> Len(hs) + 1]

\* the requests that arrive on the connections, for files of t bytes
ConnRequests(t) ==
    {[method |-> "HEAD", fileName |-> n, range |-> NoRange,
      acceptEncoding |-> ""] : n \in {TxtName, BlobName, MissingName}}
    \cup {[method |-> "GET", fileName |-> n, range |-> NoRange,
           acceptEncoding |-> ""] : n \in {DotsName, MissingName, BlobName}}
    \cup {[method |-> "GET", fileName |-> BlobName, range |-> hdr,
           acceptEncoding |-> "gzip"] :
             hdr \in {[unit |-> "items", nums |-> <<0, 0>>],
                      FormatRange(0, t), FormatRange(1, 0)}}
    \cup {[method |-> "GET", fileName |-> n, range |-> FormatRange(s, t - 1),
           acceptEncoding |-> a] :
             n \in {TxtName, BlobName}, s \in {0, SniffLen}, a \in {"gzip", ""}}

\* what no step of the server touches
clientVars == <<served, disk, exch, pc, fileName, fileSize, totalSize, start,
                wpos, buf, sent, cops, reply, outcome, found, other, twin>>

\* a request arrives on a free connection
Receive(c, req) ==
    /\ conns[c].at = "free"
    /\ conns' = [conns EXCEPT ![c] = [NoConn EXCEPT !.at = "received",
                                                    !.req = req]]
    /\ UNCHANGED <<handles, faults, clientVars>>

\* lines 67-84: the check of the name and os.Open
Open(c) ==
    LET cn == conns[c]
        name == cn.req.fileName
        opened == OpenHandle(handles, name)
    IN  /\ cn.at = "received"
        /\ IF SeqContains(name, DotDot)
           THEN /\ conns' = [conns EXCEPT ![c] =
                      [cn EXCEPT !.at = "done",
                          !.resp = HttpError(StatusBadRequest, "Bad Request",
                                             <<>>),
                          !.checks = <<"identifier">>]]
                /\ UNCHANGED handles
           ELSE IF name \notin DOMAIN served
           THEN /\ conns' = [conns EXCEPT ![c] =
                      [cn EXCEPT !.at = "done",
                          !.resp = HttpError(StatusInternalServerError,
                                      "open: no such file or directory",
                                      <<"open">>),
                          !.checks = <<"identifier", "open">>]]
                /\ UNCHANGED handles
           ELSE /\ conns' = [conns EXCEPT ![c] =
                      [cn EXCEPT !.at = "opened", !.h = opened.h,
                          !.resp.ops = <<"open">>,
                          !.checks = <<"identifier", "open">>]]
                /\ handles' = opened.hs
        /\ UNCHANGED <<faults, clientVars>>

\* the three checks passed whatever the header holds
CheckRange_Pass(range, size) ==
    [status |-> 0, text |-> "",
     checks |-> <<"range presence", "range syntax", "range bounds">>]

\* lines 98-116: the three checks of the Range header against a file of
\* size bytes, in the order the handler makes them: the status and text of
\* the first that fails (status 0 when none does) and the checks made
CheckRange(range, size) ==
    LET sc == Sscanf(range)
    IN  IF range = NoRange
        THEN [status |-> StatusBadRequest, text |-> "Range header required",
              checks |-> <<"range presence">>]
        ELSE IF sc.err \/ sc.n # 2
        THEN [status |-> StatusBadRequest, text |-> "Invalid range format",
              checks |-> <<"range presence", "range syntax">>]
        ELSE IF RangeInvalid(sc.start, sc.end, size)
        THEN [status |-> StatusRequestedRangeNotSatisfiable,
              text |-> "Invalid range",
              checks |-> <<"range presence", "range syntax", "range bounds">>]
        ELSE [status |-> 0, text |-> "",
              checks |-> <<"range presence", "range syntax", "range bounds">>]

\* lines 86-116: file.Stat, the size probe, and the three checks of the
\* Range header
Validate(c) ==
    LET cn == conns[c]
        stat == served[cn.req.fileName]
        checked == CheckRange(cn.req.range, stat.size)
    IN  /\ cn.at = "opened"
        /\ IF IsSizeProbe(cn.req)
           THEN conns' = [conns EXCEPT ![c] =
                    [cn EXCEPT !.at = "done",
                               !.resp = SizeProbe(stat, <<"open", "stat">>),
                               !.checks = @ \o <<"stat", "probe">>]]
           ELSE IF checked.status # 0
           THEN conns' = [conns EXCEPT ![c] =
                    [cn EXCEPT !.at = "done",
                               !.resp = HttpError(checked.status, checked.text,
                                                  <<"open", "stat">>),
                               !.checks = @ \o <<"stat", "probe">>
                                            \o checked.checks]]
           ELSE conns' = [conns EXCEPT ![c] =
                    [cn EXCEPT !.at = "valid",
                               !.resp.ops = @ \o <<"stat">>,
                               !.checks = @ \o <<"stat", "probe">>
                                            \o checked.checks]]
        /\ UNCHANGED <<handles, faults, clientVars>>

\* lines 86-90: file.Stat fails
StatFault(c) ==
    /\ conns[c].at = "opened"
    /\ faults < MaxFaults
    /\ faults' = faults + 1
    /\ conns' = [conns EXCEPT ![c] =
                   [@ EXCEPT !.at = "done",
                             !.resp = HttpError(StatusInternalServerError,
                                                "stat failed",
                                                <<"open", "stat">>),
                             !.checks = @ \o <<"stat">>]]
    /\ UNCHANGED <<handles, clientVars>>

\* ---------------------------------------------------------------------
\* A second attempt for the same target, running while the first does
\* ---------------------------------------------------------------------

twinRest ==
    <<served, exch, pc, fileName, fileSize, totalSize, start, wpos, buf, sent,
      cops, reply, outcome, faults, found, other, conns, handles>>

\* lines 76-90: the second attempt opens the file of the first and stats it
TwinStart ==
    /\ twin.pc = "idle"
    /\ pc \in {"probe", "loop"}
    /\ disk' = [disk EXCEPT ![fileName] = OpenFile(disk[fileName])]
    /\ twin' = [twin EXCEPT !.pc = "probe",
                            !.fileSize = Size(disk[fileName].bytes)]
    /\ UNCHANGED twinRest

\* lines 95-133: its size probe, the comparison and the seek
TwinProbe ==
    LET res == HeadView(Handler(served, ProbeRequest))
    IN  /\ twin.pc = "probe"
        /\ twin' =
              IF ProbeFailed(res)
              THEN [twin EXCEPT !.pc = "done", !.outcome = "probe failed"]
              ELSE IF AlreadyDownloaded(twin.fileSize, res.contentLength)
              THEN [twin EXCEPT !.pc = "done", !.outcome = "already complete",
                                !.totalSize = res.contentLength]
              ELSE [twin EXCEPT !.pc = "loop",
                                !.totalSize = res.contentLength,
                                !.wpos = SeekStart(@, twin.fileSize),
                                !.start = twin.fileSize]
        /\ UNCHANGED <<disk, twinRest>>

\* lines 135-146 and downloadChunk up to io.Copy: one range request of the
\* second attempt and the answer to it
TwinGet ==
    LET res == Handler(served, ChunkRequest(fileName, twin.start,
                                 ChunkEnd(twin.start, twin.totalSize)))
        dl == ReadChunk(res)
    IN  /\ twin.pc = "loop"
        /\ twin.start < twin.totalSize
        /\ twin' = IF dl.err
                   THEN [twin EXCEPT !.pc = "done", !.outcome = "aborted"]
                   ELSE [twin EXCEPT !.pc = "copy", !.pending = dl.data]
        /\ UNCHANGED <<disk, twinRest>>

\* line 188: io.Copy hands the chunk to the writer piece by piece; the next
\* k bytes are written, and after the last the cursor moves on
TwinWrite(k) ==
    LET wr == WriterReadFrom(disk[fileName].bytes, twin.wpos, <<>>,
                             Take(twin.pending, k))
        rest == Drop(twin.pending, k)
    IN  /\ twin.pc = "copy"
        /\ 0 < k /\ k <= Size(twin.pending)
        /\ disk' = [disk EXCEPT ![fileName] = OnDisk(wr.bytes)]
        /\ twin' = [twin EXCEPT !.wpos = wr.pos, !.pending = rest,
                       !.pc = IF rest = <<>> THEN "loop" ELSE "copy",
                       !.start = IF rest = <<>> THEN Advance(@) ELSE @]
        /\ UNCHANGED twinRest

\* lines 148-150 and the deferred calls: the second attempt completes
TwinFinish ==
    LET fl == WriterFlush(disk[fileName].bytes, twin.wpos, <<>>)
    IN  /\ twin.pc = "loop"
        /\ twin.start >= twin.totalSize
        /\ disk' = [disk EXCEPT ![fileName] = OnDisk(fl.bytes)]
        /\ twin' = [twin EXCEPT !.pc = "done", !.outcome = "complete",
                                !.wpos = fl.pos]
        /\ UNCHANGED twinRest

\* the handle of connection c as getContentType and the chunk reader see it
FileOf(c) ==
    LET hd == handles[conns[c].h]
    IN  [name |-> hd.name, size |-> served[hd.name].size,
         sniff |-> served[hd.name].sniff, pos |-> hd.pos]

\* lines 118-119 and getContentType up to its Read: the type by extension,
\* or else the offset is saved and up to 512 bytes are read from the handle
Classify(c) ==
    LET cn == conns[c]
        file == FileOf(c)
        ct == getContentType(file)
        n == Min(SniffLen, file.size - file.pos)
    IN  /\ cn.at = "valid"
        /\ IF ct.ops = <<>>
           THEN /\ conns' = [conns EXCEPT ![c] =
                      [cn EXCEPT !.at = "typed",
                                 !.contentType = ct.contentType]]
                /\ UNCHANGED handles
           ELSE /\ conns' = [conns EXCEPT ![c] =
                      [cn EXCEPT !.at = "sniffed", !.saved = file.pos,
                                 !.sniffed = n,
                                 !.resp.ops = @ \o <<"seek", "read">>]]
                /\ handles' = [handles EXCEPT ![cn.h].pos =
                                  IF n <= 0 THEN @ ELSE @ + n]
        /\ UNCHANGED <<faults, clientVars>>

\* lines 225-236: the offset is restored and the type detected
Restore(c) ==
    LET cn == conns[c]
        file == FileOf(c)
    IN  /\ cn.at = "sniffed"
        /\ handles' = [handles EXCEPT ![cn.h].pos = SeekStart(@, cn.saved)]
        /\ conns' = [conns EXCEPT ![c] =
              [cn EXCEPT !.at = "typed",
                         !.contentType =
                             IF cn.sniffed <= 0 THEN "application/octet-stream"
                             ELSE DetectContentType(file.sniff),
                         !.resp.ops = @ \o <<"seek">>]]
        /\ UNCHANGED <<faults, clientVars>>

\* lines 120-133: file.Seek(start, io.SeekStart)
SeekChunk(c) ==
    LET cn == conns[c]
    IN  /\ cn.at = "typed"
        /\ handles' = [handles EXCEPT ![cn.h].pos =
                          SeekStart(@, Sscanf(cn.req.range).start)]
        /\ conns' = [conns EXCEPT ![c] =
              [cn EXCEPT !.at = "sought", !.resp.ops = @ \o <<"seek">>]]
        /\ UNCHANGED <<faults, clientVars>>

\* lines 129-133: file.Seek fails
SeekFault(c) ==
    LET cn == conns[c]
    IN  /\ cn.at = "typed"
        /\ faults < MaxFaults
        /\ faults' = faults + 1
        /\ conns' = [conns EXCEPT ![c] =
              [cn EXCEPT !.at = "done",
                         !.resp = HttpError(StatusInternalServerError,
                                            "seek failed",
                                            cn.resp.ops \o <<"seek">>),
                         !.checks = @ \o <<"seek">>]]
        /\ UNCHANGED <<handles, clientVars>>

\* lines 122-126 and 136-166: the 206 answer of connection c whose chunk
\* reader delivers data
Framed(c, data) ==
    LET cn == conns[c]
        sc == Sscanf(cn.req.range)
        compress == ShouldCompress(ContainsGzip(cn.req.acceptEncoding),
                                   cn.contentType, sc.end - sc.start + 1)
        frame == PartialContent(FileOf(c), sc.start, sc.end, cn.contentType,
                                compress, <<>>)
    IN  [frame EXCEPT !.body = IF compress THEN Gzip(data) ELSE data,
                      !.ops = cn.resp.ops \o <<"read">>]

\* what the limited reader of connection c reads from its handle
ChunkData(c) ==
    LET sc == Sscanf(conns[c].req.range)
        file == FileOf(c)
    IN  ReadAt(file.name, file.size, file.pos, sc.end - sc.start + 1)

\* lines 136-173: the headers, the status 206 and the copy of the chunk
Stream(c) ==
    LET cn == conns[c]
        data == ChunkData(c)
    IN  /\ cn.at = "sought"
        /\ handles' = [handles EXCEPT ![cn.h].pos = @ + Size(data)]
        /\ conns' = [conns EXCEPT ![c] =
              [cn EXCEPT !.at = "done", !.resp = Framed(c, data)]]
        /\ UNCHANGED <<faults, clientVars>>

\* lines 155-160 and 169-173: what the handler does when io.Copy fails
\* after the status 206 went out. Raw: log.Printf. Compressed: http.Error,
\* whose status is dropped and whose text goes into the body, and then the
\* deferred gz.Close, which writes what the compressor holds and the
\* trailer of the gzip stream
CopyFailed(compress) ==
    IF compress
    THEN [late |-> <<"error text", "gzip trailer">>, log |-> <<>>]
    ELSE [late |-> <<>>, log |-> <<"Error sending chunk">>]

\* the copy of the chunk fails after k bytes were read
StreamFault(c, k) ==
    LET cn == conns[c]
        data == Take(ChunkData(c), k)
        answer == Framed(c, data)
        after == CopyFailed(answer.contentEncoding = "gzip")
    IN  /\ cn.at = "sought"
        /\ k \in CutPoints(Size(ChunkData(c)))
        /\ faults < MaxFaults
        /\ faults' = faults + 1
        /\ handles' = [handles EXCEPT ![cn.h].pos = @ + k]
        /\ conns' = [conns EXCEPT ![c] =
              [cn EXCEPT !.at = "aborted", !.resp = answer,
                         !.late = after.late, !.log = after.log]]
        /\ UNCHANGED clientVars

Next ==
    \/ \E name \in Names : Start(name)
    \/ Probe
    \/ ProbeFault
    \/ Chunk
    \/ ChunkFault
    \/ Finish

ServerNext == \E req \in Requests(served[TxtName].size) : DirectRequest(req)

NextAll == Next \/ ServerNext

NextParts ==
    \/ \E name \in ServedNames, accept \in {"gzip", NoGzip} :
          ReadWhole(name, accept)
    \/ \E e \in PieceEnds(OtherSize), accept \in {"gzip", NoGzip} :
          ReadPiece(e, accept)

\* two attempts for one target, their steps interleaved
NextTwo ==
    \/ Start(TxtName)
    \/ Probe
    \/ Chunk
    \/ ChunkFault
    \/ Finish
    \/ TwinStart
    \/ TwinProbe
    \/ TwinGet
    \/ \E k \in {bufferSize, Size(twin.pending)} : TwinWrite(k)
    \/ TwinFinish

\* the server handling requests side by side
NextServer ==
    \E c \in Conns :
        \/ \E req \in ConnRequests(served[TxtName].size) : Receive(c, req)
        \/ Open(c)
        \/ Validate(c)
        \/ StatFault(c)
        \/ Classify(c)
        \/ Restore(c)
        \/ SeekChunk(c)
        \/ SeekFault(c)
        \/ Stream(c)
        \/ \E k \in {0, 1, bufferSize} : StreamFault(c, k)

\* the fetcher against a server that may also break the protocol
NextForeign ==
    \/ Next
    \/ \E d \in {-1, 1} : ChunkMiscount(d)
    \/ \E status \in RefusalStatuses : ProbeRefused(status)

\* the fetcher, over a directory that may hold earlier work
Spec == Init /\ [][Next]_vars

\* the fetcher and other clients of the server, from an empty directory
SpecAll == InitEmpty /\ [][NextAll]_vars

\* the fetcher, talking to whatever server answers at serviceUrl
SpecForeign == Init /\ [][NextForeign]_vars

\* the fetcher with a second attempt for the same target under way
SpecTwo == InitEmpty /\ [][NextTwo]_vars

\* the Range Server alone, its requests interleaved step by step
SpecServer == InitEmpty /\ [][NextServer]_vars

\* a client that reads a served file whole and then again in pieces
SpecParts == InitEmpty /\ [][NextParts]_vars

-----------------------------------------------------------------------------
(* Properties *)

\* the name holds two dots in a row
HasDotDot(n) == \E i \in 1..(Len(n) - 1) : n[i] = "." /\ n[i + 1] = "."

\* a file the server holds under a name it accepts
Servable(n) == n \in DOMAIN served /\ ~HasDotDot(n)

\* the Range header reads bytes=<start>-<end>
WellFormed(hdr) == hdr.unit = "bytes" /\ Len(hdr.nums) >= 2

\* the original content a response carries
Decoded(resp) ==
    IF resp.contentEncoding = "gzip" THEN Gunzip(resp.body) ELSE resp.body

\* the last exchange is a GET of a servable file with a well-formed range
RangedGet ==
    /\ exch.req.method = "GET"
    /\ Servable(exch.req.fileName)
    /\ WellFormed(exch.req.range)

ReqStart == exch.req.range.nums[1]
ReqEnd == exch.req.range.nums[2]
ReqTotal == served[exch.req.fileName].size

\* C1: an attempt without failures that starts from the first L < T bytes of
\* the remote file ends with a local file of exactly the T remote bytes, and
\* every range it requested lies inside [L, T-1].
C1_ResumeCorrect ==
    (/\ pc = "done"
     /\ faults = 0
     /\ Servable(fileName)
     /\ fileSize < served[fileName].size)
    => /\ disk[fileName].bytes = Data(fileName, 0, served[fileName].size)
       /\ \A i \in 1..Len(sent) :
            /\ fileSize <= sent[i][1]
            /\ sent[i][1] <= sent[i][2]
            /\ sent[i][2] <= served[fileName].size - 1

\* C2: a GET of a valid range [s, e] of a file delivers exactly the e - s + 1
\* bytes of the file at offsets s..e, raw or gzip-compressed, sniffed or not.
C2_RangeContent ==
    (RangedGet /\ 0 <= ReqStart /\ ReqStart <= ReqEnd /\ ReqEnd < ReqTotal)
    => /\ exch.resp.status = StatusPartialContent
       /\ Decoded(exch.resp)
            = Data(exch.req.fileName, ReqStart, ReqEnd - ReqStart + 1)
       /\ Size(Decoded(exch.resp)) = ReqEnd - ReqStart + 1
       /\ (exch.resp.contentEncoding = "gzip") = IsGzip(exch.resp.body)

\* a compressed answer for a range that starts past the sniffed head of a
\* file whose type was found by sniffing
C2_Witness ==
    /\ RangedGet
    /\ exch.req.fileName = BlobName
    /\ exch.resp.status = StatusPartialContent
    /\ exch.resp.contentEncoding = "gzip"
    /\ ReqStart >= SniffLen
    /\ exch.resp.ops = <<"open", "stat", "seek", "read", "seek", "seek", "read">>

\* C3: every range request of the chunk loop is [cursor, min(cursor +
\* chunkSize, T) - 1] with 0 <= start <= end < T; for T = 1,500,000 and L = 0
\* the requests are [0,524287], [524288,1048575], [1048576,1499999].
C3_RequestWindows ==
    /\ \A i \in 1..Len(sent) :
         /\ sent[i][1] = fileSize + (i - 1) * chunkSize
         /\ sent[i][2] = Min(sent[i][1] + chunkSize, totalSize) - 1
         /\ 0 <= sent[i][1]
         /\ sent[i][1] <= sent[i][2]
         /\ sent[i][2] < totalSize
    /\ (totalSize = ExampleSize /\ fileSize = 0 /\ outcome = "complete")
       => sent = <<<<0, 524287>>, <<524288, 1048575>>, <<1048576, 1499999>>>>

\* C4: an attempt that finds L >= T probes the size only, requests no range,
\* answers that the file is already downloaded and leaves the local file as
\* it was; opening the file to measure L does not change its bytes.
C4_Idempotent ==
    [][/\ (pc \in {"idle", "done"} /\ pc' = "probe")
          => /\ disk'[fileName'].bytes = disk[fileName'].bytes
             /\ fileSize' = Size(disk[fileName'].bytes)
       /\ (/\ pc = "probe"
           /\ Servable(fileName)
           /\ fileSize >= served[fileName].size
           /\ faults' = faults)
          => /\ pc' = "done"
             /\ outcome' = "already complete"
             /\ reply' = [status |-> StatusOK, text |-> "File already downloaded"]
             /\ sent' = <<>>
             /\ cops' = <<"open", "stat", "head", "reply", "close">>
             /\ exch'.req.method = "HEAD"
             /\ disk' = disk]_vars

\* an attempt over a complete, non-empty local file has ended
C4_Witness ==
    /\ pc = "done"
    /\ outcome = "already complete"
    /\ fileSize = totalSize
    /\ totalSize > 0
    /\ disk[fileName].bytes = Data(fileName, 0, totalSize)

\* C5: a GET with a well-formed range of an existing file is answered 206
\* exactly when 0 <= start <= end < T, and otherwise 416 without file bytes.
C5_RangeValidation ==
    RangedGet
    => IF 0 <= ReqStart /\ ReqStart <= ReqEnd /\ ReqEnd < ReqTotal
       THEN exch.resp.status = StatusPartialContent
       ELSE /\ exch.resp.status = StatusRequestedRangeNotSatisfiable
            /\ exch.resp.body = <<>>
            /\ \A i \in 1..Len(exch.resp.ops) : exch.resp.ops[i] # "read"

\* a range whose end is the size of a non-empty file was rejected
C5_Witness ==
    /\ RangedGet
    /\ ReqTotal > 0
    /\ ReqStart = 0
    /\ ReqEnd = ReqTotal
    /\ exch.resp.status = StatusRequestedRangeNotSatisfiable

\* C6: a GET of an existing file without a Range header, or with one that
\* does not read bytes=<start>-<end>, is answered 400 without file bytes.
C6_RangeRequired ==
    (/\ exch.req.method = "GET"
     /\ Servable(exch.req.fileName)
     /\ ~WellFormed(exch.req.range))
    => /\ exch.resp.status = StatusBadRequest
       /\ exch.resp.body = <<>>
       /\ exch.resp.contentRange = NoContentRange
       /\ \A i \in 1..Len(exch.resp.ops) : exch.resp.ops[i] # "read"

\* a GET whose Range header names another unit was rejected
C6_Witness ==
    /\ exch.req.method = "GET"
    /\ Servable(exch.req.fileName)
    /\ exch.req.range.unit = "items"
    /\ exch.resp.status = StatusBadRequest
    /\ exch.resp.text = "Invalid range format"

\* C7: a name containing ".." is rejected with 400 by the server and by the
\* fetcher before any file is opened, created, stat'ed or read, and the
\* fetcher sends the server nothing for it.
C7_DotDotRejected ==
    /\ HasDotDot(exch.req.fileName)
       => /\ exch.resp.status = StatusBadRequest
          /\ exch.resp.ops = <<>>
          /\ exch.resp.body = <<>>
    /\ (pc # "idle" /\ HasDotDot(fileName))
       => /\ pc = "done"
          /\ outcome = "rejected"
          /\ reply.status = StatusBadRequest
          /\ cops = <<"reply">>
          /\ sent = <<>>
          /\ ~disk[fileName].exists

\* the server has rejected such a name that it does serve, and then the
\* fetcher has rejected it too
C7_Witness ==
    /\ exch.req.fileName = DotsName
    /\ exch.req.method = "GET"
    /\ exch.resp.status = StatusBadRequest
    /\ fileName = DotsName
    /\ outcome = "rejected"

\* C8: a HEAD of an existing file is answered 200 with the file's size as
\* the declared length, no body and no read of the file, whatever Range
\* header it carries; neither range parsing nor classification is reached.
C8_SizeProbe ==
    (exch.req.method = "HEAD" /\ Servable(exch.req.fileName))
    => /\ exch.resp.status = StatusOK
       /\ exch.resp.contentLength = ReqTotal
       /\ exch.resp.body = <<>>
       /\ exch.resp.text = ""
       /\ exch.resp.ops = <<"open", "stat">>
       /\ exch.resp.contentType = ""
       /\ exch.resp.contentEncoding = ""
       /\ exch.resp.contentRange = NoContentRange

\* a HEAD that carried a Range header no GET would pass was answered 200
C8_Witness ==
    /\ exch.req.method = "HEAD"
    /\ Servable(exch.req.fileName)
    /\ exch.req.range = [unit |-> "items", nums |-> <<0, 0>>]
    /\ exch.resp.status = StatusOK
    /\ exch.resp.contentLength > 0

\* C9: a chunk is compressed exactly when the client accepts gzip, the
\* content type is compressible and the chunk has at least 8192 bytes.
C9_CompressionDecision ==
    (RangedGet /\ exch.resp.status = StatusPartialContent)
    => /\ IsGzip(exch.resp.body)
            = (/\ exch.req.acceptEncoding \in {"gzip", "gzip, deflate"}
               /\ isCompressibleType(exch.resp.contentType)
               /\ ReqEnd - ReqStart + 1 >= 8192)
       /\ (ReqEnd - ReqStart + 1 = 8191) => ~IsGzip(exch.resp.body)

\* a chunk of exactly 8192 bytes was compressed
C9_Witness ==
    /\ RangedGet
    /\ exch.resp.status = StatusPartialContent
    /\ ReqEnd - ReqStart + 1 = 8192
    /\ IsGzip(exch.resp.body)

\* C10: a 206 answer that is compressed is flagged gzip, carries the range
\* and total of the original bytes and declares no length; one that is not
\* compressed carries no such flag, the same range, and the chunk's length.
C10_Framing ==
    (RangedGet /\ exch.resp.status = StatusPartialContent)
    => /\ exch.resp.contentRange = <<ReqStart, ReqEnd, ReqTotal>>
       /\ IF IsGzip(exch.resp.body)
          THEN /\ exch.resp.contentEncoding = "gzip"
               /\ exch.resp.contentLength = NoLength
          ELSE /\ exch.resp.contentEncoding = ""
               /\ exch.resp.contentLength = ReqEnd - ReqStart + 1

\* a compressed 206 answer and its framing
C10_Witness ==
    /\ RangedGet
    /\ exch.resp.status = StatusPartialContent
    /\ exch.resp.contentEncoding = "gzip"
    /\ exch.resp.contentLength = NoLength
    /\ ReqStart > 0

\* the run of the chunk loop by a fetcher without gzip capability over the
\* remote file and the local file of the attempt
PlainRun ==
    ChunkLoop(served, fileName, NoGzip,
              [bytes |-> found, pos |-> SeekStart(0, fileSize), buf |-> <<>>],
              fileSize, totalSize, <<>>)

\* C11: an attempt without transport failures, which declares gzip, requests
\* the same ranges, ends with the same local file bytes and gives the same
\* answer as the run that declares no gzip over the same remote file and
\* the same initial local file.
C11_Transparent ==
    (pc = "done" /\ faults = 0 /\ outcome \in {"complete", "aborted"})
    => /\ sent = PlainRun.sent
       /\ disk[fileName].bytes = PlainRun.bytes
       /\ reply = PlainRun.reply

\* a resumed attempt whose chunks came compressed has completed a text file
C11_Witness ==
    /\ pc = "done"
    /\ faults = 0
    /\ outcome = "complete"
    /\ fileName = TxtName
    /\ fileSize > 0
    /\ Len(sent) >= 2
    /\ exch.req.acceptEncoding = "gzip"
    /\ IsGzip(exch.resp.body)
    /\ ~IsGzip(Handler(served,
                       [exch.req EXCEPT !.acceptEncoding = NoGzip]).body)

\* C12: once contiguous smaller ranges, asked for in ascending order, cover
\* [0, T-1] of a file of T > 0 bytes, their contents joined in that order are
\* the content of the one range [0, T-1]: the T bytes of the file.
C12_Boundary ==
    (other # NoOther /\ other.cursor = served[other.name].size)
    => /\ other.got = other.whole
       /\ Size(other.got) = served[other.name].size

\* a file whose type is sniffed was read in three or more pieces, some of
\* them compressed and some not
C12_Witness ==
    /\ other.name = BlobName
    /\ other.cursor = served[BlobName].size
    /\ other.cursor > chunkSize
    /\ other.pieces >= 3
    /\ other.codings = {"", "gzip"}
    /\ other.whole = Data(BlobName, 0, other.cursor)

\* some operation of the attempt so far is op
Did(ops, op) == \E i \in 1..Len(ops) : ops[i] = op

\* C13: a size probe answered with a non-success status ends the attempt as
\* a failure with no range requested, no seek and no write; no local file
\* changes, and the target is as the open found it: with the bytes it had,
\* or empty where there was none.
C13_ProbeFailure ==
    [][(pc = "probe" /\ faults' = faults /\ exch'.resp.status # 200)
       => /\ pc' = "done"
          /\ outcome' = "probe failed"
          /\ reply'.status >= 400
          /\ sent' = <<>>
          /\ cops' = <<"open", "stat", "head", "reply", "close">>
          /\ disk' = disk
          /\ disk'[fileName].exists
          /\ disk'[fileName].bytes = found
          /\ Size(found) = fileSize]_vars

\* the probe for a file the server does not hold has failed over a local
\* file that held bytes
C13_Witness ==
    /\ pc = "done"
    /\ outcome = "probe failed"
    /\ fileName = MissingName
    /\ exch.req.method = "HEAD"
    /\ exch.resp.status = StatusInternalServerError
    /\ fileSize > 0
    /\ disk[MissingName].bytes = found
    /\ ~Did(cops, "get")

\* C14: a chunk whose request, status or copy fails ends the attempt in that
\* step as a failure: the cursor stays on the failed chunk, which was asked
\* for once, and an aborted attempt requests nothing more.
C14_AbortOnFailure ==
    [][/\ (/\ pc = "loop"
           /\ sent' # sent
           /\ (faults' > faults \/ exch'.resp.status >= 400))
          => /\ pc' = "done"
             /\ outcome' = "aborted"
             /\ reply'.status >= 400
             /\ reply'.text # "Download complete"
             /\ start' = start
             /\ Len(sent') = Len(sent) + 1
             /\ sent'[Len(sent')][1] = start
             /\ \A i \in 1..Len(sent) : sent[i][1] < start
       /\ (outcome = "aborted")
          => /\ pc = "done"
             /\ sent' = sent \/ (sent' = <<>> /\ outcome' # "aborted")]_vars

\* an attempt was aborted by an error status after a chunk had been written
C14_Witness ==
    /\ pc = "done"
    /\ outcome = "aborted"
    /\ Len(sent) >= 2
    /\ exch.resp.status = StatusRequestedRangeNotSatisfiable
    /\ reply.status = StatusRequestedRangeNotSatisfiable
    /\ Size(disk[fileName].bytes) = fileSize + (Len(sent) - 1) * chunkSize

\* the requests and writes among the operations of the attempt
Transfers == SelectSeq(cops, LAMBDA op : op \in {"get", "write"})

\* C15: the ranges of an attempt start at L and each next one starts right
\* after the end of the one before; requests and writes of responses
\* alternate, so a request is made only when every earlier response has been
\* written, and whenever the loop is about to ask, the writer has taken all
\* bytes up to the end of the last range.
C15_Sequential ==
    /\ Len(sent) >= 1 => sent[1][1] = fileSize
    /\ \A i \in 1..Len(sent) : sent[i][1] <= sent[i][2]
    /\ \A i \in 1..(Len(sent) - 1) : sent[i + 1][1] = sent[i][2] + 1
    /\ \A i \in 1..Len(Transfers) :
         Transfers[i] = IF i % 2 = 1 THEN "get" ELSE "write"
    /\ Len(sent) = Cardinality({i \in 1..Len(Transfers) : Transfers[i] = "get"})
    /\ (pc = "loop" /\ Len(sent) >= 1)
       => /\ Len(Transfers) = 2 * Len(sent)
          /\ Size(disk[fileName].bytes) + Size(buf) = sent[Len(sent)][2] + 1

\* a resumed attempt has completed after three requests
C15_Witness ==
    /\ pc = "done"
    /\ outcome = "complete"
    /\ fileSize = 1
    /\ Len(sent) = 3
    /\ sent[3][2] = totalSize - 1
    /\ Len(Transfers) = 6

\* C16: every attempt measures the local file anew and resumes at exactly
\* that offset, and an attempt over a prefix of a served file that ends
\* without a transport failure ends complete with the T remote bytes - so
\* that attempts repeated after each abort complete the file once the
\* failures have stopped.
C16_Resumable ==
    [][/\ (pc # "probe" /\ pc' = "probe")
          => fileSize' = Size(disk[fileName'].bytes)
       /\ (pc = "probe" /\ pc' = "loop")
          => (start' = fileSize /\ wpos' = fileSize)
       /\ (/\ pc = "loop"
           /\ pc' = "done"
           /\ faults' = faults
           /\ Servable(fileName)
           /\ found = Data(fileName, 0, fileSize))
          => /\ outcome' = "complete"
             /\ disk'[fileName].bytes
                  = Data(fileName, 0, served[fileName].size)]_vars

\* C17: no step of any attempt removes a local file, makes one shorter or
\* changes a byte one already holds, so sizes never decrease within or
\* across attempts; the loop writes at offsets from the measured size on.
C17_Monotonic ==
    [][/\ \A n \in Names :
            /\ disk[n].exists => disk'[n].exists
            /\ Size(disk'[n].bytes) >= Size(disk[n].bytes)
            /\ Take(disk'[n].bytes, Size(disk[n].bytes)) = disk[n].bytes
       /\ (pc' = "loop") => (wpos' >= fileSize' /\ start' >= fileSize')
       /\ (pc' \in {"probe", "loop"} \/ (pc' = "done" /\ outcome' # "rejected"))
          => Take(disk'[fileName'].bytes, fileSize') = found']_vars

\* an attempt that resumed what an abort in mid-chunk had left has completed
C17_Witness ==
    /\ pc = "done"
    /\ outcome = "complete"
    /\ faults = 1
    /\ fileSize = bufferSize
    /\ found = Data(fileName, 0, bufferSize)
    /\ Size(disk[fileName].bytes) > chunkSize

\* C18: a 206 answer whose decoded content is not end - start + 1 bytes long
\* ends the attempt in that step as a failure, and an attempt is reported
\* complete only when the local file holds exactly the remote bytes.
C18_CountChecked ==
    [][/\ (/\ pc = "loop"
           /\ sent' # sent
           /\ exch'.resp.status = StatusPartialContent
           /\ Size(Decoded(exch'.resp))
                # sent'[Len(sent')][2] - sent'[Len(sent')][1] + 1)
          => /\ pc' = "done"
             /\ outcome' = "aborted"
             /\ reply'.status >= 400
       /\ (outcome' = "complete" /\ Servable(fileName'))
          => disk'[fileName'].bytes
               = Data(fileName', 0, served[fileName'].size)]_vars

\* C19: a response with an error status, to the size probe or to a range
\* request, ends the attempt with an answer that carries that status and
\* that body, and nothing is written to any local file in that step.
C19_Verbatim ==
    [][(pc \in {"probe", "loop"} /\ exch'.resp.status >= 400)
       => /\ pc' = "done"
          /\ reply'.status = exch'.resp.status
          /\ reply'.text = exch'.resp.text
          /\ disk' = disk]_vars

\* the flushes among the operations of the attempt
Flushes == {i \in 1..Len(cops) : cops[i] = "flush"}

\* C20: an attempt that has entered the chunk loop flushes the writer exactly
\* once, as its last operation before the close that ends it, however it
\* ends; no flush or close happens while the loop runs; and at the end the
\* writer holds nothing and the file holds every byte the loop took.
C20_FlushOnce ==
    /\ (pc = "loop") => (Flushes = {} /\ ~Did(cops, "close"))
    /\ (pc = "done" /\ Did(cops, "seek"))
       => /\ outcome \in {"complete", "aborted"}
          /\ Flushes = {Len(cops) - 1}
          /\ cops[Len(cops)] = "close"
          /\ buf = <<>>
          /\ wpos = Size(disk[fileName].bytes)
          /\ (faults = 0 /\ outcome = "complete")
             => Size(disk[fileName].bytes) = sent[Len(sent)][2] + 1
          /\ (faults = 0 /\ outcome = "aborted")
             => Size(disk[fileName].bytes) = sent[Len(sent)][1]
    /\ (pc = "done" /\ ~Did(cops, "seek")) => Flushes = {}

\* an attempt that broke in its second chunk has flushed and closed
C20_Witness ==
    /\ pc = "done"
    /\ outcome = "aborted"
    /\ faults = 1
    /\ cops = <<"open", "stat", "head", "seek", "get", "write", "get", "write",
                "reply", "flush", "close">>
    /\ Size(disk[fileName].bytes) = fileSize + chunkSize + bufferSize

\* ---------------------------------------------------------------------
\* The Range Server's requests side by side
\* ---------------------------------------------------------------------

\* the requests the server is handling
InFlight == {c \in Conns : conns[c].at \notin {"free", "done", "aborted"}}

\* the handles that are open: no step of the Handler closes one
OpenHandles == {i \in 1..Len(handles) : TRUE}

\* C21: every file handle the Handler opens is closed by the time the
\* request ends, so the open handles never outnumber the requests in flight
C21_HandlesClosed == Cardinality(OpenHandles) <= Cardinality(InFlight)

C23_SilentAbort ==
    \A c \in Conns :
        conns[c].at = "aborted"
            => /\ conns[c].resp.status = StatusPartialContent
               /\ conns[c].late = <<>>
               /\ conns[c].log # <<>>

\* the first check of the Handler a request fails, "none" when it passes all
Defect(req) ==
    IF SeqContains(req.fileName, DotDot) THEN "identifier"
    ELSE IF req.fileName \notin DOMAIN served THEN "open"
    ELSE IF req.method = "HEAD" THEN "none"
    ELSE IF req.range = NoRange THEN "range presence"
    ELSE IF Sscanf(req.range).err THEN "range syntax"
    ELSE IF \/ Sscanf(req.range).start < 0
            \/ Sscanf(req.range).end < Sscanf(req.range).start
            \/ Sscanf(req.range).end >= served[req.fileName].size
    THEN "range bounds"
    ELSE "none"

\* the status each failed check is answered with
DefectStatus ==
    [x \in {"identifier", "range presence", "range syntax"}
         |-> StatusBadRequest]
    @@ [x \in {"open", "stat", "seek"} |-> StatusInternalServerError]
    @@ [x \in {"range bounds"} |-> StatusRequestedRangeNotSatisfiable]

\* the order in which the Handler makes its checks
CheckOrder ==
    <<"identifier", "open", "stat", "probe", "range presence", "range syntax",
      "range bounds", "seek">>

\* C24: a request is rejected before any byte is streamed: the checks are
\* made in the order identifier, open, stat, probe, range presence, range
\* syntax, range bounds, then the seek; a request with a defect never gets
\* past the first check it fails, and a rejected request has the error
\* status as its only status, with no 206 and no chunk byte before it
C24_RejectFirst ==
    \A c \in Conns :
        LET cn == conns[c]
            made == cn.checks
        IN  /\ made = SubSeq(CheckOrder, 1, Len(made))
            /\ cn.at # "free" /\ Defect(cn.req) # "none"
                => /\ cn.at \in {"received", "opened", "done"}
                   /\ cn.resp.status # StatusPartialContent
                   /\ cn.resp.body = <<>>
                   /\ cn.at = "done" /\ made[Len(made)] # "stat"
                        => /\ made[Len(made)] = Defect(cn.req)
                           /\ cn.resp.status = DefectStatus[Defect(cn.req)]
            /\ cn.resp.status >= StatusBadRequest
                => /\ cn.at = "done"
                   /\ cn.resp.status = DefectStatus[made[Len(made)]]
                   /\ cn.resp.body = <<>> /\ cn.late = <<>>

\* a request for a file that does not exist, also without a Range header,
\* was answered by the failed open, and a request whose range is malformed
\* by the check of the syntax
C24_Witness ==
    \E c, d \in Conns :
        /\ conns[c].at = "done" /\ conns[c].req.method = "GET"
        /\ conns[c].req.range = NoRange
        /\ conns[c].checks = <<"identifier", "open">>
        /\ conns[c].resp.status = StatusInternalServerError
        /\ conns[d].at = "done"
        /\ conns[d].resp.text = "Invalid range format"

\* ---------------------------------------------------------------------
\* The local file during an attempt
\* ---------------------------------------------------------------------

\* the local file for n holds the first bytes of the served file n
Prefix(n) ==
    LET have == disk[n].bytes
    IN  /\ Size(have) <= served[n].size
        /\ have = Data(n, 0, Size(have))

\* C25: against the Range Server, a local file that is a prefix of the
\* remote file stays one through every step of an attempt, a transfer that
\* breaks in the middle of a raw or compressed chunk included: it never
\* grows past T bytes and byte i is remote byte i
C25_PrefixKept ==
    [][\A n \in ServedNames : Prefix(n) => Prefix(n)']_vars

\* a resumed attempt whose compressed chunk broke after one byte
C25_Witness ==
    /\ pc = "done" /\ outcome = "aborted"
    /\ Servable(fileName)
    /\ exch.resp.status = StatusPartialContent
    /\ exch.resp.contentEncoding = "gzip"
    /\ fileSize > 0
    /\ Size(disk[fileName].bytes) = fileSize + 1
    /\ Prefix(fileName)

\* C26: the fetcher answers "Download complete" only when the local file
\* already holds all T bytes: the answer is written after the final flush of
\* the writer has run, never before it
C26_CompleteAfterFlush ==
    reply.text = "Download complete"
        => /\ disk[fileName].bytes = Data(fileName, 0, totalSize)
           /\ \E i \in Flushes :
                \A j \in 1..Len(cops) : cops[j] = "reply" => i < j

\* ---------------------------------------------------------------------
\* Two attempts for one target
\* ---------------------------------------------------------------------

\* both attempts have ended and each reported the file complete
BothComplete ==
    /\ pc = "done" /\ outcome = "complete"
    /\ twin.pc = "done" /\ twin.outcome = "complete"

\* C27: two attempts for the same target whose steps interleave do not
\* corrupt the local file: a file that is a prefix of the remote one stays a
\* prefix through every step of either attempt, so it never grows past T
\* bytes and byte i is remote byte i, and once both have ended complete the
\* file is the remote file
C27_TwoAttempts ==
    [][/\ (twin'.pc # "idle" /\ Prefix(fileName)) => Prefix(fileName)'
       /\ BothComplete'
            => disk'[fileName].bytes
                 = Data(fileName, 0, served[fileName].size)]_vars

\* the first attempt measured the file while the second was in the middle
\* of writing its first chunk, and both ended complete
C27_Witness ==
    /\ BothComplete
    /\ twin.fileSize = 0
    /\ fileSize = bufferSize
    /\ served[fileName].size > chunkSize
    /\ Did(cops, "write")

\* ---------------------------------------------------------------------
\* Termination of an attempt
\* ---------------------------------------------------------------------

CeilDiv(a, b) == (a + b - 1) \div b

\* the range requests an attempt that measured l bytes of t may issue
MaxRequests(l, t) == IF l < t THEN CeilDiv(t - l, chunkSize) ELSE 0

\* the steps an attempt has left at most: the probe, then one per window
\* from the cursor on, then the return
StepsLeft ==
    IF pc = "probe"
    THEN MaxRequests(0, IF fileName \in DOMAIN served
                        THEN served[fileName].size ELSE 0) + 2
    ELSE IF pc = "loop" THEN MaxRequests(start, totalSize) + 1
    ELSE 0

Outcomes ==
    {"rejected", "probe failed", "already complete", "aborted", "complete"}

\* C28: every attempt terminates: each of its steps lowers the number of
\* steps it has left at most, which is never negative; the loop issues at
\* most ceil((T - L) / chunkSize) range requests when L < T and none
\* otherwise, an iteration that goes on moves the cursor up by exactly
\* chunkSize, and the attempt ends as one of rejected, probe failed, already
\* complete, aborted, complete
C28_Terminates ==
    [][/\ pc \in {"probe", "loop"}
            => /\ StepsLeft' < StepsLeft
               /\ StepsLeft' >= 0
       /\ (pc = "loop" /\ pc' = "loop")
            => /\ start' = start + chunkSize
               /\ Len(sent') = Len(sent) + 1
       /\ pc' \in {"loop", "done"}
            => Len(sent') <= MaxRequests(fileSize', totalSize')
       /\ pc' = "done" => outcome' \in Outcomes
       /\ pc' # "done" => outcome' \notin Outcomes]_vars

\* a resumed attempt ended complete after the full number of requests
C28_Witness ==
    /\ pc = "done" /\ outcome = "complete"
    /\ fileSize > 0
    /\ Len(sent) >= 2
    /\ Len(sent) = MaxRequests(fileSize, totalSize)

=============================================================================
